---- MODULE Spec2Model ----
(***************************************************************************)
(* Kubernetes Cluster Monitor API (src/main.py): the request handlers      *)
(* read_root, get_logs, get_commit_history and get_metrics, the record     *)
(* generators they call, and the catalog tables they read.                 *)
(*                                                                         *)
(* Conventions                                                             *)
(*  - a datetime / timedelta is a record [s, us]: whole seconds and        *)
(*    microseconds (0..999999), compared as Python compares datetimes;     *)
(*  - a float that the code rounds to 2 decimals is drawn in thousandths   *)
(*    and kept, after round(x, 2), in hundredths (85.00 is 8500);          *)
(*  - a text is a sequence of tokens; the newline is the token NL;         *)
(*  - every call of the random module is an input of the action that       *)
(*    makes it (a "draw").                                                 *)
(***************************************************************************)
EXTENDS Integers, Sequences, FiniteSets, TLC

VARIABLES catalog, req, fn, arg, result

vars == <<catalog, req, fn, arg, result>>

\* ------------------------------------------------------------------ bounds
\* number of requests in flight at once (concurrent specification)
NumReqs == 2
\* largest explicit num_logs / num_commits whose records are generated
MaxNum == 7
\* index of the last sampled timestamp offset
MaxTick == 2

\* ----------------------------------------------------------------- catalog
ServiceNames ==
  << "auth-service", "user-service", "payment-service",
     "notification-service", "analytics-service", "api-gateway" >>

LOG_LEVELS == << "INFO", "DEBUG", "WARN", "ERROR" >>

\* a template is the sequence of its literal parts; "{}" is the placeholder
LOG_MESSAGES ==
  << << "Request processed successfully" >>,
     << "Database connection established" >>,
     << "Cache hit for key: ", "{}" >>,
     << "Processing batch job" >>,
     << "HTTP request received: GET /api/v1/", "{}" >>,
     << "Response sent with status code: ", "{}" >>,
     << "Authentication successful for user: ", "{}" >>,
     << "Rate limit check passed" >>,
     << "Circuit breaker closed" >>,
     << "Health check completed" >>,
     << "Memory usage: ", "{}", " MB" >>,
     << "Connection timeout, retrying..." >>,
     << "Invalid request parameter: ", "{}" >>,
     << "Service discovery updated" >>,
     << "Background task scheduled" >> >>

COMMIT_TYPES == << "feat", "fix", "refactor", "perf", "docs", "test", "chore" >>

COMMIT_MESSAGES ==
  << "add authentication middleware",
     "fix memory leak in connection pool",
     "update dependencies to latest versions",
     "optimize database query performance",
     "implement rate limiting",
     "add unit tests for API endpoints",
     "refactor error handling logic",
     "improve logging format",
     "fix race condition in cache invalidation",
     "add health check endpoint",
     "update API documentation",
     "implement circuit breaker pattern",
     "optimize memory usage",
     "fix null pointer exception",
     "add integration tests",
     "refactor service discovery logic",
     "improve error messages",
     "add metrics collection",
     "fix timeout handling",
     "implement retry mechanism",
     "update configuration management",
     "add request validation",
     "optimize response time",
     "fix connection leak",
     "add monitoring dashboards",
     "refactor database access layer",
     "implement graceful shutdown",
     "add feature flags support",
     "fix concurrent access issues",
     "improve security headers" >>

DEVELOPERS ==
  << "alice.chen", "bob.smith", "carol.jones", "david.kim",
     "emma.wilson", "frank.garcia", "grace.lee", "henry.brown" >>

\* the module-level tables as the process holds them after import
Catalog ==
  [ SERVICES        |-> ServiceNames,
    LOG_LEVELS      |-> LOG_LEVELS,
    LOG_MESSAGES    |-> LOG_MESSAGES,
    COMMIT_TYPES    |-> COMMIT_TYPES,
    COMMIT_MESSAGES |-> COMMIT_MESSAGES,
    DEVELOPERS      |-> DEVELOPERS ]

ClusterName == "production-cluster-01"

\* ---------------------------------------------------------------- datetime
NL == << "\n" >>

\* start_time + timedelta(...): microseconds carry into seconds
DtAdd(dt, td) ==
  [ s  |-> dt.s + td.s + ((dt.us + td.us) \div 1000000),
    us |-> (dt.us + td.us) % 1000000 ]

\* end_time - timedelta(hours=1) / timedelta(days=30): whole seconds
DtSub(dt, seconds) == [ s |-> dt.s - seconds, us |-> dt.us ]

\* datetime comparison a <= b
DtLe(a, b) == a.s < b.s \/ (a.s = b.s /\ a.us <= b.us)

\* datetime.isoformat(): the microseconds are printed only when non-zero
Isoformat(dt) == IF dt.us = 0 THEN << dt.s >> ELSE << dt.s, dt.us >>

\* strftime("%Y-%m-%d %H:%M:%S.%f")[:-3]: millisecond precision, truncated
StrftimeMillis(dt) == << dt.s, dt.us \div 1000 >>

\* strftime("%Y-%m-%d %H:%M:%S"): second precision, truncated
StrftimeSeconds(dt) == << dt.s >>

\* datetime.now(): the wall clock sampled by the handlers
Clock == { [ s |-> 2600000, us |-> 999700 ] }

\* timedelta(hours=1) and timedelta(days=30), in seconds
LogWindowSeconds == 3600
CommitWindowSeconds == 2592000

\* --------------------------------------------------------------- utilities
Range(f) == { f[x] : x \in DOMAIN f }

RECURSIVE SumTo(_, _)
\* f[0] + ... + f[k]
SumTo(f, k) == IF k < 0 THEN 0 ELSE f[k] + SumTo(f, k - 1)

\* the list held by a sequence-valued expression, every element evaluated
List(f) == SubSeq(f, 1, Len(f))

\* "\n".join(parts), each part a token sequence (joined by halves)
RECURSIVE Join(_)
Join(parts) ==
  LET n == Len(parts)
      h == n \div 2
  IN  IF n = 0 THEN << >>
      ELSE IF n = 1 THEN parts[1]
      ELSE Join(SubSeq(parts, 1, h)) \o << NL >> \o Join(SubSeq(parts, h + 1, n))

\* the list left as the loops appended it
SortAscending_Unsorted(list) == list

\* list.sort(key=lambda x: x["timestamp"]): stable and ascending, so element
\* i precedes element j when its key is smaller, or equal and i < j; the
\* element of rank p (p - 1 elements precede it) lands at position p
SortAscending(list) ==
  LET n == Len(list)
      precedes(i, j) ==
        \/ ~ DtLe(list[j].timestamp, list[i].timestamp)
        \/ (list[i].timestamp = list[j].timestamp /\ i < j)
      ranks == List([ i \in 1..n |-> Cardinality({ j \in 1..n : precedes(j, i) }) + 1 ])
      place(rank) == List([ p \in 1..n |-> list[CHOOSE i \in 1..n : rank[i] = p] ])
  IN  CHOOSE sorted \in { place(rank) : rank \in { ranks } } : TRUE

\* the list sorted without reverse=True
SortDescending_NotReversed(list) == SortAscending(list)

\* list.sort(key=..., reverse=True): stable and descending, so element i
\* precedes element j when its key is larger, or equal and i < j
SortDescending(list) ==
  LET n == Len(list)
      precedes(i, j) ==
        \/ ~ DtLe(list[i].timestamp, list[j].timestamp)
        \/ (list[i].timestamp = list[j].timestamp /\ i < j)
      ranks == List([ i \in 1..n |-> Cardinality({ j \in 1..n : precedes(j, i) }) + 1 ])
      place(rank) == List([ p \in 1..n |-> list[CHOOSE i \in 1..n : rank[i] = p] ])
  IN  CHOOSE sorted \in { place(rank) : rank \in { ranks } } : TRUE

\* ------------------------------------------------------------ random draws
\* The random module is a stream of draws.  A handler receives a finite tape
\* of draw indices and reads it cyclically, one index per generated record.
Ticks == 0..MaxTick

DrawAt(tape, j) == tape[((j - 1) % Len(tape)) + 1]

\* random.uniform(0, window) as a timedelta: draw k falls at (k div 2) halves
\* of the window, and odd draws 200 microseconds later (inside the same
\* millisecond as the even draw before them)
Offset(k, window) == [ s |-> (k \div 2) * (window \div 2), us |-> (k % 2) * 200 ]

\* the four formatted candidates of lines 134-139, one sample each
Replacements == << "user_1000", "500", "resource_100", "64" >>

\* the draws of one generate_log_line call
LogDraw(k) ==
  [ level       |-> (k % 4) + 1,
    message     |-> ((k * 3) % 15) + 1,
    replacement |-> ((k + 1) % 4) + 1 ]

HexAlphabet ==
  << "0", "1", "2", "3", "4", "5", "6", "7",
     "8", "9", "a", "b", "c", "d", "e", "f" >>

\* the draws of one generate_commit call
CommitDraw(k) ==
  [ hash      |-> [ i \in 1..7 |-> ((k * 7 + i * 3) % 16) + 1 ],
    author    |-> (k % 8) + 1,
    type      |-> ((k * 2) % 7) + 1,
    message   |-> ((k * 11) % 30) + 1,
    files     |-> IF k % 2 = 0 THEN 1 ELSE 15,
    insertions |-> IF k % 3 = 0 THEN 5 ELSE 200,
    deletions |-> IF k % 2 = 0 THEN 100 ELSE 1 ]

\* --------------------------------------------------------- query parameter
\* an omitted query parameter is << >>, a supplied integer v is << v >>
Omitted == << >>

\* the parameter declared without ge: only the upper end is validated
Query_NoLowerBound(raw, default, lo, hi) ==
  IF raw = Omitted THEN [ ok |-> TRUE, value |-> default ]
  ELSE IF raw[1] > hi THEN [ ok |-> FALSE, value |-> raw[1] ]
  ELSE [ ok |-> TRUE, value |-> raw[1] ]

\* Query(default=d, ge=lo, le=hi) on Optional[int]: the default is used when
\* the parameter is absent; a supplied value outside lo..hi fails validation
Query(raw, default, lo, hi) ==
  IF raw = Omitted THEN [ ok |-> TRUE, value |-> default ]
  ELSE IF raw[1] < lo \/ raw[1] > hi THEN [ ok |-> FALSE, value |-> raw[1] ]
  ELSE [ ok |-> TRUE, value |-> raw[1] ]

DefaultNumLogs == 100
MaxNumLogs == 10000
DefaultNumCommits == 50
MaxNumCommits == 1000

\* the response FastAPI sends when validation fails; the handler is not called
ValidationError == [ http |-> 422 ]

\* -------------------------------------------------------------- generators
\* message.format(x): every "{}" of the template becomes x
Format(template, x) ==
  [ i \in 1..Len(template) |-> IF template[i] = "{}" THEN x ELSE template[i] ]

\* generate_log_line(service, timestamp), with its draws d
generate_log_line(service, timestamp, d) ==
  LET level    == catalog.LOG_LEVELS[d.level]
      template == catalog.LOG_MESSAGES[d.message]
      message  == IF "{}" \in Range(template)
                  THEN Format(template, Replacements[d.replacement])
                  ELSE template
  IN  << "log", StrftimeMillis(timestamp), level, service, message >>

\* generate_commit(service, timestamp), with its draws d
generate_commit(service, timestamp, d) ==
  [ commit_hash   |-> [ i \in 1..7 |-> HexAlphabet[d.hash[i]] ],
    author        |-> catalog.DEVELOPERS[d.author],
    date          |-> StrftimeSeconds(timestamp),
    message       |-> << catalog.COMMIT_TYPES[d.type], ": ",
                         catalog.COMMIT_MESSAGES[d.message] >>,
    service       |-> service,
    files_changed |-> d.files,
    insertions    |-> d.insertions,
    deletions     |-> d.deletions ]

\* format_commit(commit): the git-log style block, every line newline-ended
format_commit(commit) ==
  << << "commit ", commit.commit_hash >>, NL,
     << "Author: ", commit.author >>, NL,
     << "Date:   ", commit.date >>, NL,
     << "Service: ", commit.service >>, NL,
     NL,
     << "    ", commit.message >>, NL,
     NL,
     << "    ", commit.files_changed, " files changed, ",
        commit.insertions, " insertions(+), ",
        commit.deletions, " deletions(-)" >>, NL >>

\* round(x, 2) of a value held in thousandths, result in hundredths
\* (ties go to the even hundredth)
Round2(x) ==
  LET q == x \div 10
      m == x % 10
  IN  IF m < 5 THEN q
      ELSE IF m > 5 THEN q + 1
      ELSE IF q % 2 = 0 THEN q ELSE q + 1

\* thresholds of the anomaly rule, in hundredths
CpuThreshold == 8500
LatencyThreshold == 40000
ErrorRateThreshold == 300
LeakThreshold == 7000
\* random.random() < 0.2, in hundredths
LeakChance == 20

\* one uniform draw over the whole 0..95 range instead of the two branches
memory_leak_score_SingleDraw(d) == Round2((d.leak_low + d.leak_high) \div 2)

\* lines 157-160: the elevated branch with probability 0.2, else the normal
\* one; d.chance is random.random() in hundredths
memory_leak_score(d) ==
  IF d.chance < LeakChance THEN Round2(d.leak_high) ELSE Round2(d.leak_low)

\* the thresholds taken as inclusive
anomaly_detected_Inclusive(cpu_usage, p99_latency, error_rate, leak_score) ==
  \/ cpu_usage >= CpuThreshold
  \/ p99_latency >= LatencyThreshold
  \/ error_rate >= ErrorRateThreshold
  \/ leak_score >= LeakThreshold

\* lines 163-168: the anomaly rule, on the rounded values
anomaly_detected(cpu_usage, p99_latency, error_rate, leak_score) ==
  \/ cpu_usage > CpuThreshold
  \/ p99_latency > LatencyThreshold
  \/ error_rate > ErrorRateThreshold
  \/ leak_score > LeakThreshold

\* generate_service_metrics(service), with its draws d: the uniform draws in
\* thousandths
generate_service_metrics(service, d) ==
  LET cpu_usage    == Round2(d.cpu)
      memory_mb    == d.memory
      p99_latency  == Round2(d.latency)
      request_rate == Round2(d.rate)
      error_rate   == Round2(d.error)
      leak_score   == memory_leak_score(d)
  IN  [ service_name         |-> service,
        cpu_usage_percent    |-> cpu_usage,
        memory_mb            |-> memory_mb,
        p99_latency_ms       |-> p99_latency,
        request_rate_per_sec |-> request_rate,
        error_rate_percent   |-> error_rate,
        memory_leak_score    |-> leak_score,
        anomaly_detected     |-> anomaly_detected(cpu_usage, p99_latency,
                                                  error_rate, leak_score) ]

\* ---------------------------------------------------------------- requests
Reqs == 1..NumReqs

\* a request slot before its handler is called
Idle ==
  [ pc |-> "idle", kind |-> "none", query |-> << >>, delayed |-> FALSE,
    locals |-> << >>, response |-> [ http |-> 0 ] ]

\* a slot whose request has been answered: query is the parameter the client
\* sent, delayed whether time.sleep ran, locals the handler's record list
Done(kind, query, delayed, locals, response) ==
  [ pc |-> "done", kind |-> kind, query |-> query, delayed |-> delayed,
    locals |-> locals, response |-> response ]

\* handlers sharing one event loop: none starts while another one sleeps
Free_EventLoop(r) ==
  /\ req[r].pc = "idle"
  /\ \A o \in Reqs : req[o].pc # "sleep"

\* The handlers are plain `def` functions, which the framework runs each in a
\* worker of its own: the handler of slot r can start as soon as the slot
\* holds no handler yet, whatever the other slots are doing.
Free(r) == req[r].pc = "idle"

\* ------------------------------------------------------------------- root
\* throw_error(): the value it returns once time.sleep(3) is over
throw_error == [ status |-> 500 ]

\* read_root evaluates the list literal [{"status": 200}, throw_error()]:
\* the call of throw_error is made, and sleeps, before random.choice runs
read_root_sleep(r) ==
  /\ Free(r)
  /\ req' = [ req EXCEPT ![r] = [ Idle EXCEPT !.pc = "sleep", !.kind = "root",
                                                !.delayed = TRUE ] ]
  /\ UNCHANGED << catalog, fn, arg, result >>

\* read_root, after the sleep: random.choice over the two evaluated elements
read_root(r, choice) ==
  /\ req[r].pc = "sleep"
  /\ LET elements == << [ status |-> 200 ], throw_error >>
     IN  req' = [ req EXCEPT ![r] =
                    Done("root", << >>, req[r].delayed, << >>,
                         [ http |-> 200, body |-> elements[choice] ]) ]
  /\ UNCHANGED << catalog, fn, arg, result >>

\* ------------------------------------------------------------------- logs
\* the remainder left out of the allotment
service_log_count_NoRemainder(idx, num_logs) == num_logs \div Len(catalog.SERVICES)

\* logs_per_service + (1 if idx < remainder else 0), lines 256-260
service_log_count(idx, num_logs) ==
  LET logs_per_service == num_logs \div Len(catalog.SERVICES)
      remainder        == num_logs % Len(catalog.SERVICES)
  IN  logs_per_service + (IF idx < remainder THEN 1 ELSE 0)

\* the two nested loops of get_logs: the list `logs` before it is sorted.
\* ends[j] records have been appended when the j-th service is done, so the
\* p-th record appended belongs to the service idx with
\* ends[idx] < p <= ends[idx + 1].
generate_logs(num_logs, start_time, tape) ==
  LET last  == Len(catalog.SERVICES) - 1
      count == [ idx \in 0..last |-> service_log_count(idx, num_logs) ]
      ends  == List([ j \in 1..(last + 1) |-> SumTo(count, j - 1) ])
      records(upto) ==
        List([ p \in 1..upto[last + 1] |->
          LET idx       == CHOOSE x \in 0..last :
                             /\ (IF x = 0 THEN 0 ELSE upto[x]) < p
                             /\ p <= upto[x + 1]
              k         == DrawAt(tape, p)
              timestamp == DtAdd(start_time, Offset(k, LogWindowSeconds))
          IN  [ timestamp |-> timestamp,
                line      |-> generate_log_line(catalog.SERVICES[idx + 1],
                                                timestamp, LogDraw(k)) ] ])
  IN  CHOOSE logs \in { records(upto) : upto \in { ends } } : TRUE

\* GET /logs
get_logs(r, raw, now, tape) ==
  /\ Free(r)
  /\ LET q == Query(raw, DefaultNumLogs, 1, MaxNumLogs)
     IN  IF ~ q.ok
         THEN req' = [ req EXCEPT ![r] = Done("logs", raw, FALSE, << >>, ValidationError) ]
         ELSE
           LET num_logs   == q.value
               end_time   == now
               start_time == DtSub(end_time, LogWindowSeconds)
               response(log_lines) ==
                 [ cluster_name   |-> ClusterName,
                   total_services |-> Len(catalog.SERVICES),
                   services       |-> catalog.SERVICES,
                   log_count      |-> Len(log_lines),
                   time_range     |-> [ start |-> Isoformat(start_time),
                                        end   |-> Isoformat(end_time) ],
                   logs           |-> Join(log_lines) ]
           IN  \E appended \in { generate_logs(num_logs, start_time, tape) } :
               \E logs \in { SortAscending(appended) } :
               \E log_lines \in { List([ i \in 1..Len(logs) |-> << logs[i].line >> ]) } :
                 req' = [ req EXCEPT ![r] =
                            Done("logs", raw, FALSE, logs,
                                 [ http |-> 200, body |-> response(log_lines) ]) ]
  /\ UNCHANGED << catalog, fn, arg, result >>

\* --------------------------------------------------------- commit history
\* the extra record given to one service too many
service_commit_count_Inclusive(idx, num_commits) ==
  LET commits_per_service == num_commits \div Len(catalog.SERVICES)
      remainder           == num_commits % Len(catalog.SERVICES)
  IN  commits_per_service + (IF idx <= remainder THEN 1 ELSE 0)

\* commits_per_service + (1 if idx < remainder else 0), lines 309-313
service_commit_count(idx, num_commits) ==
  LET commits_per_service == num_commits \div Len(catalog.SERVICES)
      remainder           == num_commits % Len(catalog.SERVICES)
  IN  commits_per_service + (IF idx < remainder THEN 1 ELSE 0)

\* the two nested loops of get_commit_history: `commits` before it is sorted
generate_commits(num_commits, start_time, tape) ==
  LET last  == Len(catalog.SERVICES) - 1
      count == [ idx \in 0..last |-> service_commit_count(idx, num_commits) ]
      ends  == List([ j \in 1..(last + 1) |-> SumTo(count, j - 1) ])
      records(upto) ==
        List([ p \in 1..upto[last + 1] |->
          LET idx       == CHOOSE x \in 0..last :
                             /\ (IF x = 0 THEN 0 ELSE upto[x]) < p
                             /\ p <= upto[x + 1]
              k         == DrawAt(tape, p)
              timestamp == DtAdd(start_time, Offset(k, CommitWindowSeconds))
          IN  [ timestamp |-> timestamp,
                commit    |-> generate_commit(catalog.SERVICES[idx + 1],
                                              timestamp, CommitDraw(k)) ] ])
  IN  CHOOSE commits \in { records(upto) : upto \in { ends } } : TRUE

\* GET /commit_history
get_commit_history(r, raw, now, tape) ==
  /\ Free(r)
  /\ LET q == Query(raw, DefaultNumCommits, 1, MaxNumCommits)
     IN  IF ~ q.ok
         THEN req' = [ req EXCEPT ![r] =
                         Done("commit_history", raw, FALSE, << >>, ValidationError) ]
         ELSE
           LET num_commits == q.value
               end_time    == now
               start_time  == DtSub(end_time, CommitWindowSeconds)
               response(commits, commit_lines) ==
                 [ cluster_name  |-> ClusterName,
                   total_commits |-> Len(commits),
                   services      |-> catalog.SERVICES,
                   time_range    |-> [ start |-> Isoformat(start_time),
                                       end   |-> Isoformat(end_time) ],
                   commits       |-> Join(commit_lines) ]
           IN  \E appended \in { generate_commits(num_commits, start_time, tape) } :
               \E commits \in { SortDescending(appended) } :
               \E commit_lines \in { List([ i \in 1..Len(commits) |->
                                             format_commit(commits[i].commit) ]) } :
                 req' = [ req EXCEPT ![r] =
                            Done("commit_history", raw, FALSE, commits,
                                 [ http |-> 200,
                                   body |-> response(commits, commit_lines) ]) ]
  /\ UNCHANGED << catalog, fn, arg, result >>

\* ---------------------------------------------------------------- metrics
\* sampled draws of one generate_service_metrics call, as the handler sees
\* them: a quiet service, a leaking one, a CPU-bound one
MetricSamples ==
  << [ cpu |-> 41237, memory |-> 512, latency |-> 120004, rate |-> 250000,
       error |-> 1204, chance |-> 57, leak_high |-> 80000, leak_low |-> 12345 ],
     [ cpu |-> 60001, memory |-> 2048, latency |-> 399996, rate |-> 10000,
       error |-> 3000, chance |-> 3, leak_high |-> 93218, leak_low |-> 0 ],
     [ cpu |-> 85006, memory |-> 128, latency |-> 10000, rate |-> 1000000,
       error |-> 0, chance |-> 20, leak_high |-> 60000, leak_low |-> 40000 ] >>

\* the comprehension walking the catalog backwards
service_metrics_Reversed(tape) ==
  List([ i \in 1..Len(catalog.SERVICES) |->
           generate_service_metrics(
             catalog.SERVICES[Len(catalog.SERVICES) + 1 - i],
             MetricSamples[DrawAt(tape, i)]) ])

\* [generate_service_metrics(service) for service in SERVICES], line 351
service_metrics(tape) ==
  List([ i \in 1..Len(catalog.SERVICES) |->
           generate_service_metrics(catalog.SERVICES[i],
                                    MetricSamples[DrawAt(tape, i)]) ])

\* GET /metrics
get_metrics(r, now, tape) ==
  /\ Free(r)
  /\ LET body == [ timestamp    |-> Isoformat(now),
                   cluster_name |-> ClusterName,
                   services     |-> service_metrics(tape) ]
     IN  req' = [ req EXCEPT ![r] =
                    Done("metrics", << >>, FALSE, << >>, [ http |-> 200, body |-> body ]) ]
  /\ UNCHANGED << catalog, fn, arg, result >>

\* ------------------------------------------------------ pure functions
\* inputs of generate_service_metrics: uniform draws in thousandths at and
\* around the ends of their ranges and the anomaly thresholds
MetricDraws ==
  [ cpu       : { 5000, 84995, 85004, 85006, 95000 },
    memory    : { 128, 2048 },
    latency   : { 10000, 400004, 400005, 500000 },
    rate      : { 10000, 1000000 },
    error     : { 0, 3004, 3006, 5000 },
    chance    : { 0, 19, 20, 99 },
    leak_high : { 60000, 70004, 70006, 95000 },
    leak_low  : { 0, 39996, 40000 } ]

\* the allotment of one count over the services, as the loops compute it
apply_service_log_count ==
  /\ fn = "none"
  /\ arg.kind = "num"
  /\ arg.num \in 1..MaxNumLogs
  /\ fn' = "service_log_count"
  /\ result' = [ idx \in 0..(Len(catalog.SERVICES) - 1) |->
                   service_log_count(idx, arg.num) ]
  /\ UNCHANGED << catalog, req, arg >>

apply_service_commit_count ==
  /\ fn = "none"
  /\ arg.kind = "num"
  /\ arg.num \in 1..MaxNumCommits
  /\ fn' = "service_commit_count"
  /\ result' = [ idx \in 0..(Len(catalog.SERVICES) - 1) |->
                   service_commit_count(idx, arg.num) ]
  /\ UNCHANGED << catalog, req, arg >>

apply_generate_service_metrics ==
  /\ fn = "none"
  /\ arg.kind = "draws"
  /\ fn' = "generate_service_metrics"
  /\ result' = generate_service_metrics(arg.service, arg.draws)
  /\ UNCHANGED << catalog, req, arg >>

\* ---------------------------------------------------------- specifications
\* query values a client sends: absent, below, inside and above the range
Raws(hi) == { Omitted } \cup { << v >> : v \in (0 - 1)..MaxNum } \cup { << hi + 1 >> }

\* tapes for a request: every tape as long as the record count while that is
\* at most MaxNum, every tape of length 2 for the default counts
Tapes(q) ==
  IF ~ q.ok THEN { << 0 >> }
  ELSE IF q.value <= MaxNum THEN [ 1..q.value -> Ticks ]
  ELSE [ 1..2 -> Ticks ]

MetricTapes == [ 1..Len(ServiceNames) -> DOMAIN MetricSamples ]

Init ==
  /\ catalog = Catalog
  /\ req = [ r \in Reqs |-> Idle ]
  /\ fn = "none"
  /\ arg = [ kind |-> "none" ]
  /\ result = << >>

\* one request at a time, every sampled input
Next ==
  \/ read_root_sleep(1)
  \/ \E choice \in 1..2 : read_root(1, choice)
  \/ /\ Free(1)
     /\ \E raw \in Raws(MaxNumLogs), now \in Clock :
          \E tape \in Tapes(Query(raw, DefaultNumLogs, 1, MaxNumLogs)) :
            get_logs(1, raw, now, tape)
  \/ /\ Free(1)
     /\ \E raw \in Raws(MaxNumCommits), now \in Clock :
          \E tape \in Tapes(Query(raw, DefaultNumCommits, 1, MaxNumCommits)) :
            get_commit_history(1, raw, now, tape)
  \/ /\ Free(1)
     /\ \E now \in Clock, tape \in MetricTapes : get_metrics(1, now, tape)

Spec == Init /\ [][Next]_vars

\* requests served concurrently, each in its own worker
ConcRaws == { << 0 >>, << 2 >> }
ConcTapes == { << 0, 1 >>, << 2, 0 >> }
ConcMetricTapes == { << 1, 2, 3 >>, << 3, 3, 1 >> }
ConcClock == { [ s |-> 2600000, us |-> 0 ] }

ConcNext ==
  \E r \in Reqs :
    \/ read_root_sleep(r)
    \/ \E choice \in 1..2 : read_root(r, choice)
    \/ /\ Free(r)
       /\ \E raw \in ConcRaws, now \in ConcClock, tape \in ConcTapes :
            get_logs(r, raw, now, tape)
    \/ /\ Free(r)
       /\ \E raw \in ConcRaws, now \in ConcClock, tape \in ConcTapes :
            get_commit_history(r, raw, now, tape)
    \/ /\ Free(r)
       /\ \E now \in ConcClock, tape \in ConcMetricTapes : get_metrics(r, now, tape)

ConcSpec == Init /\ [][ConcNext]_vars

\* the pure functions applied to inputs drawn from their ranges
FnInit ==
  /\ catalog = Catalog
  /\ req = [ r \in Reqs |-> Idle ]
  /\ fn = "none"
  /\ result = << >>
  /\ \/ \E n \in 1..MaxNumLogs : arg = [ kind |-> "num", num |-> n ]
     \/ \E service \in Range(ServiceNames), d \in MetricDraws :
          arg = [ kind |-> "draws", service |-> service, draws |-> d ]

FnNext ==
  \/ apply_service_log_count
  \/ apply_service_commit_count
  \/ apply_generate_service_metrics

FnSpec == FnInit /\ [][FnNext]_vars

\* ------------------------------------------------------------ properties
\* slot r holds the answer of a `kind` request
Answered(r, kind) == req[r].pc = "done" /\ req[r].kind = kind

\* slot r holds a successful answer of a `kind` request
Served(r, kind) == Answered(r, kind) /\ req[r].response.http = 200

\* the tokens of a text whose first field is tag
Tagged(text, tag) == { i \in 1..Len(text) : text[i][1] = tag }

\* the integer a client supplied lies in lo..hi
Supplied(r, lo, hi) ==
  req[r].query # Omitted /\ req[r].query[1] >= lo /\ req[r].query[1] <= hi

\* C1: a request for a valid count n is answered with exactly n records:
\* log_count = num_logs and the logs text has num_logs lines; total_commits =
\* num_commits and the commits text has num_commits commit blocks.
C1_CountReturned ==
  \A r \in Reqs :
    /\ (Answered(r, "logs") /\ Supplied(r, 1, 10000)) =>
         LET n    == req[r].query[1]
             body == req[r].response.body
         IN  /\ req[r].response.http = 200
             /\ body.log_count = n
             /\ Cardinality(Tagged(body.logs, "log")) = n
             /\ Cardinality(Tagged(body.logs, "\n")) = n - 1
             /\ Len(body.logs) = 2 * n - 1
    /\ (Answered(r, "commit_history") /\ Supplied(r, 1, 1000)) =>
         LET n    == req[r].query[1]
             body == req[r].response.body
         IN  /\ req[r].response.http = 200
             /\ body.total_commits = n
             /\ Cardinality(Tagged(body.commits, "commit ")) = n
             /\ Cardinality(Tagged(body.commits, "Date:   ")) = n

\* C1 witness: five logs were asked for and five lines returned
C1_Witness ==
  \E r \in Reqs :
    /\ Served(r, "logs")
    /\ req[r].query = << 5 >>
    /\ req[r].response.body.log_count = 5
    /\ Cardinality(Tagged(req[r].response.body.logs, "log")) = 5

\* the line of the p-th record of a logs text
LineAt(text, p) == text[2 * p - 1]

\* a <= b for two parsed "seconds.millis" stamps
StampLe(a, b) == a[1] < b[1] \/ (a[1] = b[1] /\ a[2] <= b[2])

\* C3: the lines of a logs answer are in non-decreasing order of the timestamp
\* each was generated with, whichever service produced them, and so are the
\* stamps parsed back out of the text.
C3_LogsAscending ==
  \A r \in Reqs :
    Served(r, "logs") =>
      LET logs == req[r].locals
          text == req[r].response.body.logs
          n    == req[r].response.body.log_count
      IN  /\ Len(logs) = n
          /\ \A p \in 1..n : LineAt(text, p) = logs[p].line
          /\ \A p \in 1..n :
               LineAt(text, p)[2] = StrftimeMillis(logs[p].timestamp)
          /\ \A p \in 1..(n - 1) :
               /\ DtLe(logs[p].timestamp, logs[p + 1].timestamp)
               /\ StampLe(LineAt(text, p)[2], LineAt(text, p + 1)[2])

\* position of a service in the catalog
ServiceIndex(name) == CHOOSE i \in 1..Len(ServiceNames) : ServiceNames[i] = name

\* C3 witness: a line of a later catalog service precedes, with a strictly
\* earlier timestamp, a line of an earlier catalog service
C3_Witness ==
  \E r \in Reqs :
    /\ Served(r, "logs")
    /\ req[r].query # Omitted
    /\ \E p \in 1..(Len(req[r].locals) - 1) :
         LET a == req[r].locals[p]
             b == req[r].locals[p + 1]
         IN  /\ a.timestamp # b.timestamp
             /\ ServiceIndex(a.line[4]) > ServiceIndex(b.line[4])

\* the "Date:" line of the p-th block of a commits text (a block is 14 tokens
\* and blocks are one newline apart)
DateAt(text, p) == text[15 * (p - 1) + 5]

\* C4: the blocks of a commit history answer are in non-increasing order of
\* timestamp across all services: no block is followed by one with a later
\* date.
C4_CommitsDescending ==
  \A r \in Reqs :
    Served(r, "commit_history") =>
      LET commits == req[r].locals
          text    == req[r].response.body.commits
          n       == req[r].response.body.total_commits
      IN  /\ Len(commits) = n
          /\ \A p \in 1..n :
               /\ DateAt(text, p)[1] = "Date:   "
               /\ DateAt(text, p)[2] = StrftimeSeconds(commits[p].timestamp)
          /\ \A p \in 1..(n - 1) :
               /\ DtLe(commits[p + 1].timestamp, commits[p].timestamp)
               /\ DateAt(text, p + 1)[2][1] <= DateAt(text, p)[2][1]

\* C4 witness: a block of an earlier catalog service follows, with a strictly
\* earlier date, a block of a later catalog service
C4_Witness ==
  \E r \in Reqs :
    /\ Served(r, "commit_history")
    /\ req[r].query # Omitted
    /\ \E p \in 1..(Len(req[r].locals) - 1) :
         LET a == req[r].locals[p]
             b == req[r].locals[p + 1]
         IN  /\ a.commit.date[1] > b.commit.date[1]
             /\ ServiceIndex(a.commit.service) > ServiceIndex(b.commit.service)

\* C6: a root call returns {status: 200} without passing through the delay,
\* or passes through the delay and returns {status: 500}; the delay is taken
\* only on calls answered {status: 500}.
C6_DelayOnlyOn500 ==
  \A r \in Reqs :
    Answered(r, "root") =>
         /\ req[r].response.body.status \in { 200, 500 }
         /\ req[r].delayed <=> (req[r].response.body.status = 500)

\* C7: a num_logs outside 1..10000 or a num_commits outside 1..1000 is
\* answered with a client error, is not clamped, and no record is generated;
\* a request without the parameter gets the default count (100 logs, 50
\* commits).
C7_OutOfRangeRejected ==
  \A r \in Reqs :
    /\ (Answered(r, "logs") /\ req[r].query # Omitted
          /\ ~ Supplied(r, 1, 10000)) =>
         /\ req[r].response.http \in 400..499
         /\ req[r].locals = << >>
         /\ DOMAIN req[r].response = { "http" }
    /\ (Answered(r, "commit_history") /\ req[r].query # Omitted
          /\ ~ Supplied(r, 1, 1000)) =>
         /\ req[r].response.http \in 400..499
         /\ req[r].locals = << >>
         /\ DOMAIN req[r].response = { "http" }
    /\ (Answered(r, "logs") /\ req[r].query = Omitted) =>
         /\ req[r].response.http = 200
         /\ req[r].response.body.log_count = 100
         /\ Len(req[r].locals) = 100
    /\ (Answered(r, "commit_history") /\ req[r].query = Omitted) =>
         /\ req[r].response.http = 200
         /\ req[r].response.body.total_commits = 50
         /\ Len(req[r].locals) = 50

\* C7 witness: num_logs = 10001 was rejected
C7_Witness ==
  \E r \in Reqs :
    /\ Answered(r, "logs")
    /\ req[r].query = << 10001 >>
    /\ req[r].response.http = 422

\* C8: a metrics answer has exactly 6 entries, the catalog services in
\* catalog order, one each, and the cluster name "production-cluster-01".
C8_MetricsPerService ==
  \A r \in Reqs :
    Served(r, "metrics") =>
      LET body == req[r].response.body
      IN  /\ body.cluster_name = "production-cluster-01"
          /\ Len(body.services) = 6
          /\ \A i \in 1..6 : body.services[i].service_name = ServiceNames[i]
          /\ \A i, j \in 1..6 :
               i # j => body.services[i].service_name # body.services[j].service_name

\* C8 witness: a metrics answer in which auth-service is quiet and
\* api-gateway is flagged
C8_Witness ==
  \E r \in Reqs :
    /\ Served(r, "metrics")
    /\ ~ req[r].response.body.services[1].anomaly_detected
    /\ req[r].response.body.services[6].service_name = "api-gateway"
    /\ req[r].response.body.services[6].anomaly_detected

\* C2: for a valid count n the allotment, in list logs and in list commit
\* history, gives floor(n/6) + 1 records to exactly the first n mod 6 services
\* in catalog order and floor(n/6) to the rest, and the counts sum to n.
C2_EvenSplit ==
  fn \in { "service_log_count", "service_commit_count" } =>
    LET n     == arg.num
        base  == n \div 6
        extra == n % 6
    IN  /\ DOMAIN result = 0..5
        /\ \A idx \in 0..5 : result[idx] \in { base, base + 1 }
        /\ \A idx \in 0..5 : (result[idx] = base + 1) <=> (idx < extra)
        /\ result[0] + result[1] + result[2] + result[3] + result[4] + result[5] = n
        /\ (n = 6) => \A idx \in 0..5 : result[idx] = 1

\* C2 witness: 1000 commits are split 167, 167, 167, 167, 166, 166
C2_Witness ==
  /\ fn = "service_commit_count"
  /\ arg.num = 1000
  /\ result[3] = 167
  /\ result[4] = 166

\* C5: anomaly_detected of a generated record is true exactly when, on the
\* values the record carries, cpu_usage_percent > 85 or p99_latency_ms > 400
\* or error_rate_percent > 3 or memory_leak_score > 70.
C5_AnomalyRule ==
  fn = "generate_service_metrics" =>
    (result.anomaly_detected <=>
       \/ result.cpu_usage_percent > 8500
       \/ result.p99_latency_ms > 40000
       \/ result.error_rate_percent > 300
       \/ result.memory_leak_score > 7000)

\* C5 witness: every value sits exactly on its threshold and the record is
\* not flagged
C5_Witness ==
  /\ fn = "generate_service_metrics"
  /\ result.cpu_usage_percent = 8500
  /\ result.p99_latency_ms = 40000
  /\ result.error_rate_percent = 300
  /\ result.memory_leak_score = 7000
  /\ ~ result.anomaly_detected

\* C10: a generated record has cpu_usage_percent in [5, 95] and
\* memory_leak_score in [0, 40] or [60, 95], never strictly between 40 and 60;
\* a record flagged for its leak score alone comes from the leak branch.
C10_LeakScoreBimodal ==
  fn = "generate_service_metrics" =>
    /\ result.cpu_usage_percent >= 500
    /\ result.cpu_usage_percent <= 9500
    /\ \/ (result.memory_leak_score >= 0 /\ result.memory_leak_score <= 4000)
       \/ (result.memory_leak_score >= 6000 /\ result.memory_leak_score <= 9500)
    /\ (result.memory_leak_score >= 6000) <=> (arg.draws.chance < 20)
    /\ ( /\ result.anomaly_detected
         /\ result.cpu_usage_percent <= 8500
         /\ result.p99_latency_ms <= 40000
         /\ result.error_rate_percent <= 300 ) => arg.draws.chance < 20

\* C10 witness: a record flagged for its leak score alone
C10_Witness ==
  /\ fn = "generate_service_metrics"
  /\ arg.draws.chance = 19
  /\ result.memory_leak_score = 9500
  /\ result.cpu_usage_percent = 500
  /\ result.p99_latency_ms = 1000
  /\ result.error_rate_percent = 0
  /\ result.anomaly_detected

====
